---- MODULE Spec2Model ----
(***************************************************************************)
(* The media-request lifecycle of luxury_media: the API handlers of        *)
(* apps/api/app/api/routes/media_requests.py and the worker of             *)
(* apps/worker/main.py acting on the records kept by                       *)
(* ClickHouseClient._media_requests.                                       *)
(*                                                                         *)
(* The API handlers contain no suspension point between their read and     *)
(* their write (the client's coroutines never yield), so each handler is   *)
(* one atomic step.  The worker suspends inside generate_media, between    *)
(* its first write (status -> processing) and its final write, so a job is *)
(* two steps with arbitrary steps of the API between them.  The consumer   *)
(* awaits the handler of one message before it delivers the next, and the  *)
(* queue delivers at least once: any message may be delivered again.  Both *)
(* sides address the same record by the request's id.                      *)
(*                                                                         *)
(* The handlers are modelled for the calls that the per-minute limiter of  *)
(* check_rate_limit admits.  created_at is kept as what the quota count    *)
(* reads of it: whether its date is the current UTC day.                   *)
(*                                                                         *)
(* Three further parts of the platform are modelled beside the lifecycle,  *)
(* each under a specification of its own: the user accounts of             *)
(* routes/users.py (SpecUsers), RateLimiter.is_allowed (SpecRateLimiter),  *)
(* and the queue consumers with MediaWorker._shutdown (SpecWorker).        *)
(***************************************************************************)
EXTENDS Integers, FiniteSets, Sequences, TLC

VARIABLES
    media_requests,   \* ClickHouseClient._media_requests: id -> MediaRequestInDB
    job,              \* the message the worker is processing (between its first
                      \* write and its final write), or Idle
    retry_calls,      \* per request: retry calls made by the owner while it was failed
                      \* (a history variable, counted under SpecRetryCalls only)
    creates,          \* the number of requests stored by create since the start
    last,             \* the most recent operation and the response it produced
    users,            \* ClickHouseClient._users: id -> UserInDB
    rate_limiter,     \* the RateLimiter instance of dependencies.py and its clock
    worker            \* the MediaWorker: its consumer, its consumer task, its shutdown

vars == <<media_requests, job, retry_calls, creates, last, users, rate_limiter, worker>>

\* The state outside the media-request lifecycle.
service_vars == <<users, rate_limiter, worker>>

(***************************************************************************)
(* Bounds of the model.                                                    *)
(***************************************************************************)
MaxRequests == 1
MaxRetryCalls == 4
MaxCreates == 2
MaxUsers == 3
MaxTime == 3
MaxDeliveries == 3

(***************************************************************************)
(* Constants of the program.                                               *)
(***************************************************************************)
RetryLimit == 3
DefaultMaxRetries == 3
FreeDailyLimit == 5
PremiumDailyLimit == 50
EnterpriseDailyLimit == 500
ListLimit == 1000

HTTP_200_OK == 200
HTTP_201_CREATED == 201
HTTP_402_PAYMENT_REQUIRED == 402
HTTP_403_FORBIDDEN == 403
HTTP_404_NOT_FOUND == 404
HTTP_409_CONFLICT == 409
HTTP_429_TOO_MANY_REQUESTS == 429

PENDING == "pending"
PROCESSING == "processing"
COMPLETED == "completed"
FAILED == "failed"
CANCELLED == "cancelled"

MediaRequestStatus == {PENDING, PROCESSING, COMPLETED, FAILED, CANCELLED}
MediaQuality == {"draft", "standard", "premium", "ultra"}

None == "None"

Ids == 1 .. MaxRequests

\* The accounts, and the tier of each (SubscriptionStatus).
Accounts == {"u1", "u2", "u3", "u4"}
subscription_status ==
    [u \in Accounts |->
        CASE u = "u1" -> "free"
          [] u = "u2" -> "premium"
          [] u = "u3" -> "enterprise"
          [] OTHER -> "suspended"]

\* The accounts that call the API in the lifecycle specifications.
Users == {"u1", "u2"}

\* The exception kinds that process_media_request tells apart when
\* generate_media raises.
GenerationErrors == {"MediaGenerationError", "TimeoutError", "Exception"}

\* The date of created_at against datetime.utcnow().date().
TODAY == "today"
EARLIER == "earlier"

\* str(error)[:500]: the text of the exception, whatever its kind.
ErrorText == "error text"

NoRecord == [user_id |-> "none", status |-> "none", retry_count |-> 0,
             error_message |-> None, completed_at |-> None,
             processing_time_ms |-> None, created_at |-> EARLIER]

Min(a, b) == IF a < b THEN a ELSE b

(***************************************************************************)
(* MediaRequestInDB: the defaults of a record stored by create.            *)
(***************************************************************************)
MediaRequestInDB(user_id) ==
    [user_id |-> user_id, status |-> PENDING, retry_count |-> 0,
     error_message |-> None, completed_at |-> None,
     processing_time_ms |-> None, created_at |-> TODAY]

(***************************************************************************)
(* MediaRequestUpdate: every field is optional.  An update is the record   *)
(* of the fields that were passed to its constructor, which is what        *)
(* model_dump(exclude_unset=True) returns; a field passed as None is a     *)
(* field of the update.                                                    *)
(***************************************************************************)
\* setattr(current_request, field, value) for each field of the update.
ApplyUpdate(rec, upd) ==
    [f \in DOMAIN rec |-> IF f \in DOMAIN upd THEN upd[f] ELSE rec[f]]

(***************************************************************************)
(* ClickHouseClient.update_media_request: no record, no change; otherwise  *)
(* the fields of the update are written over the record, whatever the      *)
(* record's current status is.                                             *)
(***************************************************************************)
update_media_request(store, request_id, upd) ==
    IF request_id \notin DOMAIN store THEN store
    ELSE [store EXCEPT ![request_id] = ApplyUpdate(store[request_id], upd)]

get_media_request(store, request_id) ==
    IF request_id \in DOMAIN store THEN store[request_id] ELSE NoRecord

\* The id of the n-th record of S in storage order (ids are given in the
\* order of insertion, which is the order of the dict's values), found by
\* bisection of lo .. hi.
RECURSIVE NthId(_, _, _, _)
NthId(S, n, lo, hi) ==
    IF lo >= hi THEN lo
    ELSE LET mid == (lo + hi) \div 2
         IN  IF Cardinality({j \in S : j <= mid}) >= n
             THEN NthId(S, n, lo, mid)
             ELSE NthId(S, n, mid + 1, hi)

\* ClickHouseClient.list_user_media_requests with offset 0: the first `limit`
\* of the user's records in storage order.
list_user_media_requests(store, user_id, limit) ==
    LET user_requests == {i \in DOMAIN store : store[i].user_id = user_id}
    IN  IF Cardinality(user_requests) <= limit THEN user_requests
        ELSE LET cut == NthId(user_requests, limit, 1, Cardinality(DOMAIN store))
             IN  {i \in user_requests : i <= cut}

\* _get_user_requests_today: of the records listed, those created today.
UserRequestsToday(store, user_id) ==
    Cardinality({i \in list_user_media_requests(store, user_id, ListLimit) :
                    store[i].created_at = TODAY})

DailyLimitDefaultFree(tier) ==
    CASE tier = "free" -> FreeDailyLimit
      [] tier = "premium" -> PremiumDailyLimit
      [] tier = "enterprise" -> EnterpriseDailyLimit
      [] OTHER -> FreeDailyLimit

DailyLimit(tier) ==
    CASE tier = "free" -> FreeDailyLimit
      [] tier = "premium" -> PremiumDailyLimit
      [] tier = "enterprise" -> EnterpriseDailyLimit
      [] OTHER -> 0

\* MediaGenerationMessage: the fields the worker reads.
MediaGenerationMessage(request_id, retry_count) ==
    [request_id |-> request_id, retry_count |-> retry_count,
     max_retries |-> DefaultMaxRetries]

\* The worker between two messages.
Idle == [request_id |-> 0, retry_count |-> 0, max_retries |-> 0]

Op(op, code, detail) == [op |-> op, code |-> code, detail |-> detail]

(***************************************************************************)
(* The services around the lifecycle, as they are after construction.      *)
(***************************************************************************)
\* settings.rate_limit_requests and settings.rate_limit_window.
DefaultLimit == 100
DefaultWindow == 60

\* RateLimiter.__init__: no key has a list yet.  limit and window are the
\* arguments every call of check_rate_limit passes; now is the clock that
\* datetime.utcnow() reads; accepted lists, per key, the time of every call
\* that returned True (a history variable).
RateLimiter(limit, window) ==
    [requests |-> <<>>, accepted |-> <<>>, now |-> 0, limit |-> limit, window |-> window]

\* StubQueueConsumer.__init__ and RabbitMQConsumer.__init__ followed by
\* connect(): the attributes a consumer object has.
QueueConsumer == [consuming |-> FALSE, connected |-> TRUE]

\* The methods StubQueueConsumer and RabbitMQConsumer define.
ConsumerMethods == {"connect", "start_consuming", "stop_consuming", "health_check"}

\* MediaWorker.__init__ followed by the connection of the services: the
\* consumer (a StubQueueConsumer when use_stub, else a RabbitMQConsumer), the
\* StubQueueConsumer that RabbitMQConsumer.start_consuming creates (None until
\* then), the position of the consumer task, the number of messages handed to
\* the handler, the number of handler exceptions the loop caught, the
\* position of _shutdown, the calls _shutdown completed, and the state of
\* clickhouse_client._client.
MediaWorker(use_stub) ==
    [use_stub |-> use_stub,
     consumer |-> QueueConsumer,
     stub_consumer |-> None,
     consumer_task |-> "created",
     delivered |-> 0,
     caught |-> 0,
     shutdown |-> "running",
     calls |-> <<>>,
     clickhouse_client |-> "connected"]

Init ==
    /\ media_requests = <<>>
    /\ job = Idle
    /\ retry_calls = [i \in Ids |-> 0]
    /\ creates = 0
    /\ last = Op("init", 0, "")
    /\ users = <<>>
    /\ rate_limiter = RateLimiter(DefaultLimit, DefaultWindow)
    /\ worker = MediaWorker(TRUE)

(***************************************************************************)
(* create_media_request                                                    *)
(***************************************************************************)
\* get_current_active_user: a suspended account is turned away before the
\* handler runs.
get_current_active_user(user) == subscription_status[user] # "suspended"

CreateResponseQuotaFirst(store, user, quality) ==
    IF ~get_current_active_user(user)
    THEN Op("create", HTTP_403_FORBIDDEN, "Account suspended")
    ELSE IF UserRequestsToday(store, user) >= DailyLimit(subscription_status[user])
    THEN Op("create", HTTP_429_TOO_MANY_REQUESTS, "Daily limit exceeded")
    ELSE IF quality = "premium" /\ subscription_status[user] = "free"
    THEN Op("create", HTTP_402_PAYMENT_REQUIRED, "premium")
    ELSE IF quality = "ultra" /\ subscription_status[user] # "enterprise"
    THEN Op("create", HTTP_402_PAYMENT_REQUIRED, "enterprise")
    ELSE Op("create", HTTP_201_CREATED, "")

\* The handler's guards, given what _get_user_requests_today returned.
CreateResponseFor(user, quality, user_requests_today) ==
    IF ~get_current_active_user(user)
    THEN Op("create", HTTP_403_FORBIDDEN, "Account suspended")
    ELSE IF quality = "premium" /\ subscription_status[user] = "free"
    THEN Op("create", HTTP_402_PAYMENT_REQUIRED, "premium")
    ELSE IF quality = "ultra" /\ subscription_status[user] # "enterprise"
    THEN Op("create", HTTP_402_PAYMENT_REQUIRED, "enterprise")
    ELSE IF user_requests_today >= DailyLimit(subscription_status[user])
    THEN Op("create", HTTP_429_TOO_MANY_REQUESTS, "Daily limit exceeded")
    ELSE Op("create", HTTP_201_CREATED, "")

CreateResponse(store, user, quality) ==
    CreateResponseFor(user, quality, UserRequestsToday(store, user))

\* _get_user_requests_today when the listing raises: `return 0  # Fail safe`.
CreateResponseListFails(user, quality) == CreateResponseFor(user, quality, 0)

\* The handler's effect on the store and its response.  The id of a new
\* record is fresh (uuid4): the next unused one.
CreateEffect(user, response) ==
    LET id == Cardinality(DOMAIN media_requests) + 1
    IN  /\ IF response.code = HTTP_201_CREATED
           THEN /\ media_requests' = (id :> MediaRequestInDB(user)) @@ media_requests
                /\ creates' = creates + 1
           ELSE UNCHANGED <<media_requests, creates>>
        /\ last' = response
        /\ UNCHANGED <<job, retry_calls, service_vars>>

CreateStep(user, quality) ==
    \E response \in {CreateResponse(media_requests, user, quality)} :
        CreateEffect(user, response)

create_media_request(user, quality) ==
    /\ Cardinality(DOMAIN media_requests) + 1 \in Ids
    /\ CreateStep(user, quality)

(***************************************************************************)
(* get_media_request (the route)                                           *)
(***************************************************************************)
GetResponseNoOwnerCheck(store, user, request_id) ==
    IF request_id \notin DOMAIN store THEN Op("get", HTTP_404_NOT_FOUND, "not found")
    ELSE Op("get", HTTP_200_OK, "")

GetResponse(store, user, request_id) ==
    IF request_id \notin DOMAIN store THEN Op("get", HTTP_404_NOT_FOUND, "not found")
    ELSE IF store[request_id].user_id # user
         THEN Op("get", HTTP_403_FORBIDDEN, "Access denied")
    ELSE Op("get", HTTP_200_OK, "")

read_media_request(user, request_id) ==
    /\ last' = GetResponse(media_requests, user, request_id)
    /\ UNCHANGED <<media_requests, job, retry_calls, creates, service_vars>>

(***************************************************************************)
(* cancel_media_request                                                    *)
(***************************************************************************)
CancelResponseAlsoFailed(store, user, request_id) ==
    IF request_id \notin DOMAIN store THEN Op("cancel", HTTP_404_NOT_FOUND, "not found")
    ELSE IF store[request_id].user_id # user
         THEN Op("cancel", HTTP_403_FORBIDDEN, "Access denied")
    ELSE IF store[request_id].status \notin {PENDING, PROCESSING, FAILED}
         THEN Op("cancel", HTTP_409_CONFLICT, "Cannot cancel request with status")
    ELSE Op("cancel", HTTP_200_OK, "")

CancelResponse(store, user, request_id) ==
    IF request_id \notin DOMAIN store THEN Op("cancel", HTTP_404_NOT_FOUND, "not found")
    ELSE IF store[request_id].user_id # user
         THEN Op("cancel", HTTP_403_FORBIDDEN, "Access denied")
    ELSE IF store[request_id].status \notin {PENDING, PROCESSING}
         THEN Op("cancel", HTTP_409_CONFLICT, "Cannot cancel request with status")
    ELSE Op("cancel", HTTP_200_OK, "")

cancel_media_request(user, request_id) ==
    LET response == CancelResponse(media_requests, user, request_id)
    IN  /\ IF response.code = HTTP_200_OK
           THEN media_requests' = update_media_request(media_requests, request_id,
                                                       [status |-> CANCELLED])
           ELSE UNCHANGED media_requests
        /\ last' = response
        /\ UNCHANGED <<job, retry_calls, creates, service_vars>>

(***************************************************************************)
(* retry_media_request                                                     *)
(***************************************************************************)
RetryResponseNoStatusCheck(store, user, request_id) ==
    IF request_id \notin DOMAIN store THEN Op("retry", HTTP_404_NOT_FOUND, "not found")
    ELSE IF store[request_id].user_id # user
         THEN Op("retry", HTTP_403_FORBIDDEN, "Access denied")
    ELSE IF store[request_id].retry_count >= RetryLimit
         THEN Op("retry", HTTP_409_CONFLICT, "Maximum retry limit reached")
    ELSE Op("retry", HTTP_200_OK, "")

RetryResponseOffByOne(store, user, request_id) ==
    IF request_id \notin DOMAIN store THEN Op("retry", HTTP_404_NOT_FOUND, "not found")
    ELSE IF store[request_id].user_id # user
         THEN Op("retry", HTTP_403_FORBIDDEN, "Access denied")
    ELSE IF store[request_id].status # FAILED
         THEN Op("retry", HTTP_409_CONFLICT, "Cannot retry request with status")
    ELSE IF store[request_id].retry_count > RetryLimit
         THEN Op("retry", HTTP_409_CONFLICT, "Maximum retry limit reached")
    ELSE Op("retry", HTTP_200_OK, "")

RetryResponse(store, user, request_id) ==
    IF request_id \notin DOMAIN store THEN Op("retry", HTTP_404_NOT_FOUND, "not found")
    ELSE IF store[request_id].user_id # user
         THEN Op("retry", HTTP_403_FORBIDDEN, "Access denied")
    ELSE IF store[request_id].status # FAILED
         THEN Op("retry", HTTP_409_CONFLICT, "Cannot retry request with status")
    ELSE IF store[request_id].retry_count >= RetryLimit
         THEN Op("retry", HTTP_409_CONFLICT, "Maximum retry limit reached")
    ELSE Op("retry", HTTP_200_OK, "")

\* The MediaRequestUpdate the handler builds for a record it may retry.
RetryUpdateKeepsError(rec) ==
    [status |-> PENDING, retry_count |-> rec.retry_count + 1]

RetryUpdate(rec) ==
    [status |-> PENDING, retry_count |-> rec.retry_count + 1, error_message |-> None]

\* The handler's effect on the store and its response.
RetryStep(user, request_id) ==
    LET response == RetryResponse(media_requests, user, request_id)
    IN  /\ IF response.code = HTTP_200_OK
           THEN media_requests' =
                    update_media_request(media_requests, request_id,
                                         RetryUpdate(media_requests[request_id]))
           ELSE UNCHANGED media_requests
        /\ last' = response
        /\ UNCHANGED <<job, creates, service_vars>>

retry_media_request(user, request_id) ==
    /\ RetryStep(user, request_id)
    /\ UNCHANGED retry_calls

\* A retry call counts for retry_calls when the owner makes it on a failed request.
RetryCounts(store, user, request_id) ==
    /\ request_id \in DOMAIN store
    /\ store[request_id].user_id = user
    /\ store[request_id].status = FAILED

\* retry_media_request with the calls counted.
CountedRetry(user, request_id) ==
    /\ RetryCounts(media_requests, user, request_id) => retry_calls[request_id] < MaxRetryCalls
    /\ RetryStep(user, request_id)
    /\ retry_calls' = IF RetryCounts(media_requests, user, request_id)
                      THEN [retry_calls EXCEPT ![request_id] = @ + 1]
                      ELSE retry_calls

(***************************************************************************)
(* MediaWorker.process_media_request, first step: a message is delivered   *)
(* to the idle worker, which writes status processing and the message's    *)
(* retry_count, and then awaits generate_media.                            *)
(***************************************************************************)
\* The messages the queue may deliver: one for a stored request, carrying a
\* retry count within the message's max_retries.
Messages ==
    {MediaGenerationMessage(i, rc) : i \in DOMAIN media_requests, rc \in 0 .. DefaultMaxRetries}

StartProcessing(message) ==
    /\ job = Idle
    /\ media_requests' =
           update_media_request(media_requests, message.request_id,
               [status |-> PROCESSING, retry_count |-> message.retry_count])
    /\ job' = message
    /\ last' = Op("pickup", 0, "")
    /\ UNCHANGED <<retry_calls, creates, service_vars>>

(***************************************************************************)
(* process_media_request when the first update raises DatabaseError: the   *)
(* except DatabaseError branch logs and raises it again; generate_media is *)
(* not reached and no other update is made.                                *)
(***************************************************************************)
PickupDatabaseFailureHandled(message) ==
    /\ job = Idle
    /\ media_requests' =
           update_media_request(media_requests, message.request_id,
               [status |-> IF message.retry_count < message.max_retries
                           THEN PENDING ELSE FAILED,
                error_message |-> ErrorText,
                retry_count |-> message.retry_count])
    /\ last' = Op("pickup_database_error", 0, "MediaGenerationError")
    /\ UNCHANGED <<job, retry_calls, creates, service_vars>>

PickupDatabaseFailure(message) ==
    /\ job = Idle
    /\ last' = Op("pickup_database_error", 0, "DatabaseError")
    /\ UNCHANGED <<media_requests, job, retry_calls, creates, service_vars>>

(***************************************************************************)
(* process_media_request, generate_media returned: the final write.        *)
(***************************************************************************)
\* The MediaRequestUpdate of the final write.
CompletedUpdateNoTimestamp == [status |-> COMPLETED, processing_time_ms |-> "set"]

CompletedUpdate ==
    [status |-> COMPLETED, processing_time_ms |-> "set", completed_at |-> "set"]

CompleteProcessing ==
    /\ job # Idle
    /\ media_requests' =
           update_media_request(media_requests, job.request_id, CompletedUpdate)
    /\ job' = Idle
    /\ last' = Op("complete", 0, "")
    /\ UNCHANGED <<retry_calls, creates, service_vars>>

(***************************************************************************)
(* process_media_request, generate_media raised: _handle_processing_error. *)
(***************************************************************************)
ShouldRetryIgnoresKind(message, error) ==
    message.retry_count < message.max_retries

ShouldRetry(message, error) ==
    /\ message.retry_count < message.max_retries
    /\ error \notin {"MediaGenerationError", "TimeoutError"}

ErrorStatus(message, error) ==
    IF ShouldRetry(message, error) THEN PENDING ELSE FAILED

FailProcessingNoMessage(error) ==
    /\ job # Idle
    /\ media_requests' =
           update_media_request(media_requests, job.request_id,
               [status |-> ErrorStatus(job, error),
                retry_count |-> job.retry_count])
    /\ job' = Idle
    /\ last' = Op("fail", 0, error)
    /\ UNCHANGED <<retry_calls, creates, service_vars>>

FailProcessing(error) ==
    /\ job # Idle
    /\ media_requests' =
           update_media_request(media_requests, job.request_id,
               [status |-> ErrorStatus(job, error),
                error_message |-> ErrorText,
                retry_count |-> job.retry_count])
    /\ job' = Idle
    /\ last' = Op("fail", 0, error)
    /\ UNCHANGED <<retry_calls, creates, service_vars>>

(***************************************************************************)
(* process_media_request, the final update raised DatabaseError: the error *)
(* is logged and raised again, and the record is not written.              *)
(***************************************************************************)
DatabaseFailure ==
    /\ job # Idle
    /\ job' = Idle
    /\ last' = Op("database_error", 0, "")
    /\ UNCHANGED <<media_requests, retry_calls, creates, service_vars>>

Next ==
    \/ \E u \in Users, q \in MediaQuality : create_media_request(u, q)
    \/ \E u \in Users, i \in Ids : read_media_request(u, i)
    \/ \E u \in Users, i \in Ids : cancel_media_request(u, i)
    \/ \E u \in Users, i \in Ids : retry_media_request(u, i)
    \/ \E m \in Messages : StartProcessing(m)
    \/ \E m \in Messages : PickupDatabaseFailure(m)
    \/ CompleteProcessing
    \/ \E e \in GenerationErrors : FailProcessing(e)
    \/ DatabaseFailure

Spec == Init /\ [][Next]_vars

\* The same program with the owner's retry calls on failed requests counted.
NextRetryCalls ==
    \/ \E u \in Users, q \in MediaQuality : create_media_request(u, q)
    \/ \E u \in Users, i \in Ids : read_media_request(u, i)
    \/ \E u \in Users, i \in Ids : cancel_media_request(u, i)
    \/ \E u \in Users, i \in Ids : CountedRetry(u, i)
    \/ \E m \in Messages : StartProcessing(m)
    \/ \E m \in Messages : PickupDatabaseFailure(m)
    \/ CompleteProcessing
    \/ \E e \in GenerationErrors : FailProcessing(e)
    \/ DatabaseFailure

SpecRetryCalls == Init /\ [][NextRetryCalls]_vars

(***************************************************************************)
(* The program when every generation raises a retryable error, with the    *)
(* worker scheduled fairly: a deliverable message is picked up, and an     *)
(* attempt that was started ends.                                          *)
(***************************************************************************)
NextRetryableErrors ==
    \/ \E u \in Users, q \in MediaQuality : create_media_request(u, q)
    \/ \E u \in Users, i \in Ids : read_media_request(u, i)
    \/ \E u \in Users, i \in Ids : cancel_media_request(u, i)
    \/ \E u \in Users, i \in Ids : retry_media_request(u, i)
    \/ \E m \in Messages : StartProcessing(m)
    \/ FailProcessing("Exception")

SpecRetryableErrors ==
    /\ Init
    /\ [][NextRetryableErrors]_vars
    /\ WF_vars(\E m \in Messages : StartProcessing(m))
    /\ WF_vars(FailProcessing("Exception"))

(***************************************************************************)
(* The daily quota of create.  The store starts as an account's history:   *)
(* `earlier` requests of past days followed by `today` requests of the     *)
(* current day, within the account's daily limit, in the order they were   *)
(* stored.  Every account may then create, and the day may end.            *)
(***************************************************************************)
EarlierCounts == {0, ListLimit - 1, ListLimit}

TodayCounts(tier) == {n \in {0, DailyLimit(tier) - 1, DailyLimit(tier)} : n >= 0}

StoreOf(user, earlier, today) ==
    [i \in 1 .. (earlier + today) |->
        [MediaRequestInDB(user) EXCEPT !.created_at = IF i <= earlier THEN EARLIER ELSE TODAY]]

QuotaInit ==
    /\ \E u \in Accounts, a \in EarlierCounts :
           \E b \in TodayCounts(subscription_status[u]) :
               media_requests = StoreOf(u, a, b)
    /\ job = Idle
    /\ retry_calls = [i \in Ids |-> 0]
    /\ creates = 0
    /\ last = Op("init", 0, "")
    /\ users = <<>>
    /\ rate_limiter = RateLimiter(DefaultLimit, DefaultWindow)
    /\ worker = MediaWorker(TRUE)

QuotaCreate(user, quality) ==
    /\ creates < MaxCreates
    /\ CreateStep(user, quality)

\* create while the storage read of _get_user_requests_today fails.
QuotaCreateListFails(user, quality) ==
    /\ creates < MaxCreates
    /\ CreateEffect(user, CreateResponseListFails(user, quality))

\* datetime.utcnow().date() moves to the next day: no stored created_at is
\* of the current day any more.
Midnight ==
    /\ {i \in DOMAIN media_requests : media_requests[i].created_at = TODAY} # {}
    /\ media_requests' =
           [i \in DOMAIN media_requests |-> [media_requests[i] EXCEPT !.created_at = EARLIER]]
    /\ last' = Op("midnight", 0, "")
    /\ UNCHANGED <<job, retry_calls, creates, service_vars>>

QuotaNext ==
    \/ \E u \in Accounts, q \in MediaQuality : QuotaCreate(u, q)
    \/ \E u \in Accounts, q \in MediaQuality : QuotaCreateListFails(u, q)
    \/ Midnight

SpecQuota == QuotaInit /\ [][QuotaNext]_vars

(***************************************************************************)
(* Properties.                                                             *)
(***************************************************************************)
Stored == DOMAIN media_requests

\* C1: once a request's status is cancelled, no later step replaces it by
\* completed, failed or pending: a worker whose generation ends after the
\* cancel was recorded discards its result.
C1_CancelledStaysCancelled ==
    [][\A i \in Stored :
          media_requests[i].status = CANCELLED
          => media_requests'[i].status \notin {COMPLETED, FAILED, PENDING}]_vars

\* C2: in every step a stored request's status stays or changes along one
\* of the edges of the lifecycle.
LifecycleEdges ==
    {<<PENDING, CANCELLED>>, <<PROCESSING, CANCELLED>>, <<PENDING, PROCESSING>>,
     <<PROCESSING, COMPLETED>>, <<PROCESSING, FAILED>>, <<PROCESSING, PENDING>>,
     <<FAILED, PENDING>>}

C2_OnlyLifecycleEdges ==
    [][\A i \in Stored :
          \/ media_requests'[i].status = media_requests[i].status
          \/ <<media_requests[i].status, media_requests'[i].status>> \in LifecycleEdges]_vars

\* C3: the status write is a compare-and-swap on the status its transition
\* expects.  The worker's final write expects processing, the status its
\* job wrote: when a concurrent transition (a cancel) was applied in the
\* meantime, the final write is rejected and the store stays as it is.
C3_CompareAndSwap ==
    [][(/\ job # Idle
        /\ job' = Idle
        /\ media_requests[job.request_id].status # PROCESSING)
       => media_requests' = media_requests]_vars

\* C4: a cancel by the owner answers 200 and sets the status to cancelled
\* when the status is pending or processing, and answers 409 and leaves the
\* record as it is when the status is completed, failed or cancelled.
C4_CancelByOwner ==
    [][\A u \in Users, i \in Stored :
          (last'.op = "cancel" /\ media_requests[i].user_id = u /\ cancel_media_request(u, i))
          => IF media_requests[i].status \in {PENDING, PROCESSING}
             THEN /\ last'.code = HTTP_200_OK
                  /\ media_requests'[i] = [media_requests[i] EXCEPT !.status = CANCELLED]
             ELSE /\ last'.code = HTTP_409_CONFLICT
                  /\ media_requests' = media_requests]_vars

C4_Witness ==
    /\ last.op = "cancel"
    /\ last.code = HTTP_200_OK
    /\ \E i \in Stored : media_requests[i].status = CANCELLED

\* C5: a retry by the owner of a failed request with retry_count below 3
\* sets the status to pending, adds one to retry_count and clears
\* error_message.
C5_RetryByOwner ==
    [][\A u \in Users, i \in Stored :
          (/\ last'.op = "retry"
           /\ media_requests[i].user_id = u
           /\ media_requests[i].status = FAILED
           /\ media_requests[i].retry_count < RetryLimit
           /\ retry_media_request(u, i))
          => /\ last'.code = HTTP_200_OK
             /\ media_requests'[i].status = PENDING
             /\ media_requests'[i].retry_count = media_requests[i].retry_count + 1
             /\ media_requests'[i].error_message = None]_vars

C5_Witness ==
    /\ last.op = "retry"
    /\ last.code = HTTP_200_OK
    /\ \E i \in Stored :
          /\ media_requests[i].status = PENDING
          /\ media_requests[i].retry_count = RetryLimit
          /\ media_requests[i].error_message = None

\* C6: a retry by the owner is answered 409 and leaves the record as it is
\* when the status is not failed or retry_count has reached 3; for a failed
\* request with retry_count 3 the answer is 'Maximum retry limit reached'.
C6_RetryRejected ==
    [][\A u \in Users, i \in Stored :
          (/\ last'.op = "retry"
           /\ media_requests[i].user_id = u
           /\ (media_requests[i].status # FAILED \/ media_requests[i].retry_count >= RetryLimit)
           /\ retry_media_request(u, i))
          => /\ last'.code = HTTP_409_CONFLICT
             /\ media_requests' = media_requests
             /\ (media_requests[i].status = FAILED /\ media_requests[i].retry_count = RetryLimit)
                => last'.detail = "Maximum retry limit reached"]_vars

C6_Witness ==
    /\ last = Op("retry", HTTP_409_CONFLICT, "Maximum retry limit reached")
    /\ \E i \in Stored :
          media_requests[i].status = FAILED /\ media_requests[i].retry_count = RetryLimit

\* C7: after N retry calls by the owner on the failed request, the stored
\* retry_count is min(N, 3).
C7_RetryCountIsMinOfCalls ==
    \A i \in Stored : media_requests[i].retry_count = Min(retry_calls[i], RetryLimit)

C9_RetryCountChangesOnlyByRetry ==
    [][\A i \in Stored :
          media_requests'[i].retry_count # media_requests[i].retry_count
          => last'.op = "retry"]_vars

\* C10: a read, cancel or retry of a stored request by a caller who is not
\* its owner is answered 403 and leaves the store as it is, whatever the
\* status; for a request that is not stored the answer is 404.
C10_OwnerOnly ==
    [][\A u \in Users, i \in Ids :
          (/\ last'.op \in {"get", "cancel", "retry"}
           /\ (read_media_request(u, i) \/ cancel_media_request(u, i)
               \/ retry_media_request(u, i)))
          => /\ (i \in Stored /\ media_requests[i].user_id # u)
                => (last'.code = HTTP_403_FORBIDDEN /\ media_requests' = media_requests)
             /\ i \notin Stored
                => (last'.code = HTTP_404_NOT_FOUND /\ media_requests' = media_requests)]_vars

C10_Witness ==
    /\ last.op \in {"get", "cancel", "retry"}
    /\ last.code = HTTP_403_FORBIDDEN
    /\ \E i \in Stored : media_requests[i].status \in {PROCESSING, FAILED, COMPLETED}

(***************************************************************************)
(* Properties of create and its daily quota, under SpecQuota.              *)
(***************************************************************************)
Tier(u) == subscription_status[u]

\* The tier does not allow the quality.
TierRefuses(tier, quality) ==
    \/ quality = "premium" /\ tier = "free"
    \/ quality = "ultra" /\ tier # "enterprise"

\* The number of the account's stored requests created in the current day.
CreatedToday(store, u) ==
    Cardinality({i \in DOMAIN store : store[i].user_id = u /\ store[i].created_at = TODAY})

\* C11: a create with quality premium by a free account, or with quality
\* ultra by any account that is not enterprise, is answered
\* SubscriptionRequired (402) and stores nothing.
C11_TierRefusal ==
    [][\A u \in Accounts, q \in MediaQuality :
          (last'.op = "create" /\ TierRefuses(Tier(u), q) /\ QuotaCreate(u, q))
          => /\ last'.code = HTTP_402_PAYMENT_REQUIRED
             /\ media_requests' = media_requests]_vars

\* C11 as amended: the same for every account that is not suspended,
\* whatever the number of requests it created today; a suspended account is
\* answered 403 before the tier is looked at; nothing is stored either way.
C11_TierRefusalOfActiveAccounts ==
    [][\A u \in Accounts, q \in MediaQuality :
          (last'.op = "create" /\ TierRefuses(Tier(u), q) /\ QuotaCreate(u, q))
          => /\ media_requests' = media_requests
             /\ last'.code = IF Tier(u) = "suspended" THEN HTTP_403_FORBIDDEN
                              ELSE HTTP_402_PAYMENT_REQUIRED]_vars

\* A free account that has used up its quota was refused premium quality.
C11_Witness ==
    /\ last = Op("create", HTTP_402_PAYMENT_REQUIRED, "premium")
    /\ CreatedToday(media_requests, "u1") = FreeDailyLimit
    /\ UserRequestsToday(media_requests, "u1") = FreeDailyLimit

\* C12: for an account of tier free, premium or enterprise and a quality its
\* tier allows, a create made with exactly DailyLimit requests of the
\* current day is answered 429 and stores nothing, and a create made with
\* exactly DailyLimit - 1 is answered 201 and stores the request.
C12_DailyLimit ==
    [][\A u \in Accounts, q \in MediaQuality :
          (/\ last'.op = "create"
           /\ Tier(u) \in {"free", "premium", "enterprise"}
           /\ ~TierRefuses(Tier(u), q)
           /\ QuotaCreate(u, q))
          => LET n == CreatedToday(media_requests, u)
                 limit == DailyLimit(Tier(u))
             IN  /\ n = limit
                    => (last'.code = HTTP_429_TOO_MANY_REQUESTS
                        /\ media_requests' = media_requests)
                 /\ n = limit - 1
                    => (last'.code = HTTP_201_CREATED
                        /\ CreatedToday(media_requests', u) = limit)]_vars

\* C13: no account ever has more stored requests created in the current
\* day than its daily limit.
C13_QuotaNeverExceeded ==
    \A u \in Accounts : CreatedToday(media_requests, u) <= DailyLimit(Tier(u))

\* C14: an account whose tier is not free, premium or enterprise has a daily
\* limit of 0; every create by it is rejected and stores nothing, whatever
\* the quality.
C14_SuspendedNeverCreates ==
    [][\A u \in Accounts, q \in MediaQuality :
          (/\ last'.op = "create"
           /\ Tier(u) \notin {"free", "premium", "enterprise"}
           /\ QuotaCreate(u, q))
          => /\ DailyLimit(Tier(u)) = 0
             /\ last'.code \notin {HTTP_200_OK, HTTP_201_CREATED}
             /\ media_requests' = media_requests]_vars

C14_Witness ==
    /\ last = Op("create", HTTP_403_FORBIDDEN, "Account suspended")
    /\ \A i \in DOMAIN media_requests : media_requests[i].user_id # "u4"
    /\ DOMAIN media_requests # {}

\* C20: the count the quota check of create uses is the number of the
\* account's stored requests created in the current day, however many
\* requests the account has stored.
C20_CountIsCreatedToday ==
    last.op = "create"
    => \A u \in Accounts :
           UserRequestsToday(media_requests, u) = CreatedToday(media_requests, u)

(***************************************************************************)
(* Properties of the worker, under Spec.                                   *)
(***************************************************************************)
\* C15: a create by a free account with quality standard stores status
\* pending and retry_count 0; the pickup writes processing and generation
\* follows it; a generation that returns is followed by one write that sets
\* completed with completed_at and processing_time_ms, and a request with
\* no error_message before it has none after it.
C15_SuccessPath ==
    [][/\ \A u \in Users :
             (last'.op = "create" /\ Tier(u) = "free" /\ create_media_request(u, "standard"))
             => /\ last'.code = HTTP_201_CREATED
                /\ \E i \in DOMAIN media_requests' \ DOMAIN media_requests :
                       /\ media_requests'[i].user_id = u
                       /\ media_requests'[i].status = PENDING
                       /\ media_requests'[i].retry_count = 0
                       /\ media_requests'[i].error_message = None
                       /\ media_requests'[i].completed_at = None
       /\ last'.op = "pickup"
             => /\ job = Idle
                /\ job' # Idle
                /\ media_requests'[job'.request_id].status = PROCESSING
                /\ media_requests'[job'.request_id].completed_at
                       = media_requests[job'.request_id].completed_at
       /\ last'.op = "complete"
             => /\ job # Idle
                /\ job' = Idle
                /\ media_requests'[job.request_id].status = COMPLETED
                /\ media_requests'[job.request_id].completed_at # None
                /\ media_requests'[job.request_id].processing_time_ms # None
                /\ media_requests[job.request_id].error_message = None
                      => media_requests'[job.request_id].error_message = None]_vars

C15_Witness ==
    /\ last.op = "complete"
    /\ \E i \in Stored :
          /\ Tier(media_requests[i].user_id) = "free"
          /\ media_requests[i].status = COMPLETED
          /\ media_requests[i].retry_count = 0
          /\ media_requests[i].completed_at # None
          /\ media_requests[i].processing_time_ms # None
          /\ media_requests[i].error_message = None

\* C16: when generation raises, the status the worker writes is failed for
\* a MediaGenerationError or a TimeoutError, and for any other exception
\* pending when the job's retry_count is below its max_retries and failed
\* when it is not.
C16_ErrorStatus ==
    [][\A e \in GenerationErrors :
          (last' = Op("fail", 0, e) /\ job # Idle)
          => media_requests'[job.request_id].status =
                IF e \in {"MediaGenerationError", "TimeoutError"} THEN FAILED
                ELSE IF job.retry_count < job.max_retries THEN PENDING
                ELSE FAILED]_vars

C16_Witness ==
    /\ last = Op("fail", 0, "Exception")
    /\ \E i \in Stored :
          /\ media_requests[i].status = FAILED
          /\ media_requests[i].retry_count = DefaultMaxRetries
          /\ media_requests[i].error_message = ErrorText

\* C17: when process_media_request has finished for a delivered job, by
\* returning or by raising, the job's request is not processing any more.
C17_NoAttemptLeavesProcessing ==
    [][(job # Idle /\ job' = Idle)
       => media_requests'[job.request_id].status # PROCESSING]_vars

\* C18: a job delivered again after its request reached completed changes
\* neither the request's status nor its completed_at.
C18_RedeliveryAfterCompleted ==
    [][\A i \in Stored :
          (last'.op = "pickup" /\ job'.request_id = i /\ media_requests[i].status = COMPLETED)
          => /\ media_requests'[i].status = COMPLETED
             /\ media_requests'[i].completed_at = media_requests[i].completed_at]_vars

\* C19: a stored request has a completed_at only when its status is
\* completed.
C19_CompletedAtOnlyWhenCompleted ==
    \A i \in Stored :
        media_requests[i].completed_at # None => media_requests[i].status = COMPLETED

\* C21: when the storage read that counts the account's requests of today
\* fails during a create, the create is answered with an error and no
\* request is stored.
C21_CountFailureIsSurfaced ==
    [][\A u \in Accounts, q \in MediaQuality :
          (last'.op = "create" /\ QuotaCreateListFails(u, q))
          => /\ last'.code # HTTP_201_CREATED
             /\ media_requests' = media_requests]_vars

\* C22: a stored request whose status is failed has an error_message.
C22_FailedHasErrorMessage ==
    \A i \in Stored :
        media_requests[i].status = FAILED => media_requests[i].error_message # None

C22_Witness ==
    /\ last.op = "retry"
    /\ last.code = HTTP_409_CONFLICT
    /\ \E i \in Stored :
          /\ media_requests[i].status = FAILED
          /\ media_requests[i].error_message = ErrorText

\* C23: when the first update of a job raises DatabaseError, generation is
\* not started, the store is not written and the DatabaseError is raised.
C23_FirstWriteFailure ==
    [][last'.op = "pickup_database_error"
       => /\ job = Idle
          /\ job' = Idle
          /\ media_requests' = media_requests
          /\ last'.detail = "DatabaseError"]_vars

C23_Witness ==
    /\ last = Op("pickup_database_error", 0, "DatabaseError")
    /\ job = Idle
    /\ \E i \in Stored : media_requests[i].status = PENDING

\* C28: a stored request whose status is completed has no error_message.
C28_CompletedHasNoErrorMessage ==
    \A i \in Stored :
        media_requests[i].status = COMPLETED => media_requests[i].error_message = None

\* C29: when every generation raises a retryable error and the worker is
\* scheduled fairly, a picked-up request eventually is failed (or
\* cancelled): it is not re-queued for ever.
C29_RetriesEnd ==
    \A i \in Ids :
        (i \in Stored /\ media_requests[i].status = PROCESSING)
        ~> (i \in Stored /\ media_requests[i].status \in {COMPLETED, FAILED, CANCELLED})

(***************************************************************************)
(* The user accounts of apps/api/app/api/routes/users.py, kept in          *)
(* ClickHouseClient._users.  create_user reads and writes the store with   *)
(* no suspension point between the two (the client's coroutines never      *)
(* yield), so the handler is one atomic step whatever the interleaving of  *)
(* the requests.                                                           *)
(***************************************************************************)
Emails == {"a@example.com", "b@example.com", "c@example.com"}
UserIds == 1 .. MaxUsers

\* UserInDB as create_user stores it: subscription_status defaults to free.
UserInDB(email) == [email |-> email, subscription_status |-> "free"]

\* The variant under test: the lookup that never finds the user.
get_user_by_email_finds_nothing(store, email) == {}

\* ClickHouseClient.get_user_by_email: the stored users with that email (the
\* code returns the first of them, or None when there is none).
get_user_by_email(store, email) == {i \in DOMAIN store : store[i].email = email}

\* POST /users: UserAlreadyExistsError (409) when a user with the email
\* exists, else the user is stored under a fresh id.
create_user(email) ==
    /\ IF get_user_by_email(users, email) # {}
       THEN /\ last' = Op("create_user", HTTP_409_CONFLICT, email)
            /\ UNCHANGED users
       ELSE /\ Cardinality(DOMAIN users) + 1 \in UserIds
            /\ users' = Append(users, UserInDB(email))
            /\ last' = Op("create_user", HTTP_201_CREATED, email)
    /\ UNCHANGED <<media_requests, job, retry_calls, creates, rate_limiter, worker>>

\* ClickHouseClient.update_user with the fields UserUpdate has: no email.
update_user(store, user_id, subscription) ==
    [store EXCEPT ![user_id].subscription_status = subscription]

\* PUT /users/me by an active user.
update_current_user_profile(user_id, subscription) ==
    /\ user_id \in DOMAIN users
    /\ users[user_id].subscription_status # "suspended"
    /\ users' = update_user(users, user_id, subscription)
    /\ last' = Op("update_user", 200, users[user_id].email)
    /\ UNCHANGED <<media_requests, job, retry_calls, creates, rate_limiter, worker>>

\* DELETE /users/me: a soft delete, the account is suspended and stays stored.
delete_current_user(user_id) ==
    /\ user_id \in DOMAIN users
    /\ users[user_id].subscription_status # "suspended"
    /\ users' = update_user(users, user_id, "suspended")
    /\ last' = Op("delete_user", 204, users[user_id].email)
    /\ UNCHANGED <<media_requests, job, retry_calls, creates, rate_limiter, worker>>

UsersNext ==
    \/ \E e \in Emails : create_user(e)
    \/ \E i \in UserIds, s \in {"free", "premium", "enterprise"} :
           update_current_user_profile(i, s)
    \/ \E i \in UserIds : delete_current_user(i)

SpecUsers == Init /\ [][UsersNext]_vars

\* C27: no two stored users ever share an email address, and create_user for
\* an email that is already stored answers 409 and stores nothing, whatever
\* the order in which the requests are served.
C27_EmailsAreUnique ==
    [][/\ \A i, j \in DOMAIN users' : users'[i].email = users'[j].email => i = j
       /\ \A e \in Emails :
              (create_user(e) /\ \E i \in DOMAIN users : users[i].email = e)
              => /\ last'.code = HTTP_409_CONFLICT
                 /\ users' = users]_vars

\* A duplicate create_user was refused while the first account, suspended by
\* a soft delete, is still stored.
C27_Witness ==
    /\ last.op = "create_user"
    /\ last.code = HTTP_409_CONFLICT
    /\ \E i \in DOMAIN users :
           users[i].email = last.detail /\ users[i].subscription_status = "suspended"
    /\ Cardinality(DOMAIN users) >= 2

(***************************************************************************)
(* RateLimiter.is_allowed of apps/api/app/api/dependencies.py.  The method *)
(* is synchronous, so a call is one atomic step; the clock it reads never  *)
(* runs backwards and advances by whole seconds between the calls.         *)
(***************************************************************************)
Keys == {"u1", "anonymous"}
Limits == {1, 2}
Windows == {1, 2}
Times == 0 .. MaxTime

\* self.requests[key], the empty list for a key that has none yet.
RequestsOf(requests, key) == IF key \in DOMAIN requests THEN requests[key] ELSE <<>>

\* The variant under test: the limit itself is still under the limit.
UnderLimitInclusive(kept, limit) == Len(kept) <= limit

\* "Check if under limit": len(self.requests[key]) < limit.
UnderLimit(kept, limit) == Len(kept) < limit

\* self.requests[key] = value, the key being added when it is new.
SetKey(requests, key, value) ==
    [k \in DOMAIN requests \cup {key} |-> IF k = key THEN value ELSE requests[k]]

\* RateLimiter.is_allowed(key, limit, window): drop the timestamps that are
\* not later than now - window, then record now and return True when fewer
\* than limit are left, else return False (429 from check_rate_limit).
is_allowed(key) ==
    LET now == rate_limiter.now
        window_start == now - rate_limiter.window
        kept == SelectSeq(RequestsOf(rate_limiter.requests, key),
                          LAMBDA req_time : req_time > window_start)
    IN  /\ IF UnderLimit(kept, rate_limiter.limit)
           THEN /\ rate_limiter' =
                       [rate_limiter EXCEPT
                            !.requests = SetKey(@, key, Append(kept, now)),
                            !.accepted = SetKey(@, key,
                                 Append(RequestsOf(rate_limiter.accepted, key), now))]
                /\ last' = Op("is_allowed", HTTP_200_OK, key)
           ELSE /\ rate_limiter' =
                       [rate_limiter EXCEPT !.requests = SetKey(@, key, kept)]
                /\ last' = Op("is_allowed", HTTP_429_TOO_MANY_REQUESTS, key)
        /\ UNCHANGED <<media_requests, job, retry_calls, creates, users, worker>>

\* A second passes on the clock of datetime.utcnow().
Tick ==
    /\ rate_limiter.now < MaxTime
    /\ rate_limiter' = [rate_limiter EXCEPT !.now = @ + 1]
    /\ UNCHANGED <<media_requests, job, retry_calls, creates, last, users, worker>>

\* The limiter as constructed, with the limit and the window of the settings.
RateLimiterInit ==
    /\ media_requests = <<>>
    /\ job = Idle
    /\ retry_calls = [i \in Ids |-> 0]
    /\ creates = 0
    /\ last = Op("init", 0, "")
    /\ users = <<>>
    /\ \E limit \in Limits, window \in Windows :
           rate_limiter = RateLimiter(limit, window)
    /\ worker = MediaWorker(TRUE)

RateLimiterNext ==
    \/ \E key \in Keys : is_allowed(key)
    \/ Tick

SpecRateLimiter == RateLimiterInit /\ [][RateLimiterNext]_vars

\* The calls for key that returned True at a time in the window (t - window, t].
AcceptedInWindow(rl, key, t) ==
    LET acc == RequestsOf(rl.accepted, key)
    IN  {n \in 1 .. Len(acc) : t - rl.window < acc[n] /\ acc[n] <= t}

Getattr(obj, name, default) == IF name \in DOMAIN obj THEN obj[name] ELSE default

\* What the worker reports at shutdown (main.py:286-287).
processed_messages == Getattr(worker.consumer, "processed_messages", 0)
failed_messages == Getattr(worker.consumer, "failed_messages", 0)

\* The flag that the running loop reads: the consumer's own for a
\* StubQueueConsumer, that of the inner stub for a RabbitMQConsumer.
LoopConsuming(w) ==
    IF w.use_stub THEN w.consumer.consuming ELSE w.stub_consumer.consuming

\* `while self.consuming`: the loop sleeps again or start_consuming returns.
LoopTest(w) == IF LoopConsuming(w) THEN "sleeping" ELSE "done"

\* start_consuming up to its first suspension: the flag is set; a RabbitMQ
\* consumer creates a StubQueueConsumer, whose start_consuming sets its own
\* flag; the loop is entered and sleeps.
StartConsuming ==
    /\ worker.consumer_task = "created"
    /\ worker' = [worker EXCEPT
                      !.consumer.consuming = TRUE,
                      !.stub_consumer = IF worker.use_stub THEN None
                                        ELSE [consuming |-> TRUE, connected |-> FALSE],
                      !.consumer_task = "sleeping"]
    /\ last' = Op("start_consuming", 0, "")
    /\ UNCHANGED <<media_requests, job, retry_calls, creates, users, rate_limiter>>

\* asyncio.sleep(10) returns: break when the flag is off, else the mock
\* message is handed to the handler.
Wake ==
    /\ worker.consumer_task = "sleeping"
    /\ IF LoopConsuming(worker)
       THEN /\ worker.delivered < MaxDeliveries
            /\ worker' = [worker EXCEPT !.delivered = @ + 1,
                                        !.consumer_task = "handling"]
            /\ last' = Op("deliver", 0, "dev-request-123")
       ELSE /\ worker' = [worker EXCEPT !.consumer_task = "done"]
            /\ last' = Op("loop_exit", 0, "")
    /\ UNCHANGED <<media_requests, job, retry_calls, creates, users, rate_limiter>>

\* await callback(mock_message) returns.
HandlerReturns ==
    /\ worker.consumer_task = "handling"
    /\ worker' = [worker EXCEPT !.consumer_task = LoopTest(worker)]
    /\ last' = Op("handler", 0, "returned")
    /\ UNCHANGED <<media_requests, job, retry_calls, creates, users, rate_limiter>>

\* await callback(mock_message) raises: the loop logs the error and goes on.
HandlerRaises ==
    /\ worker.consumer_task = "handling"
    /\ worker' = [worker EXCEPT !.caught = @ + 1,
                                !.consumer_task = LoopTest(worker)]
    /\ last' = Op("handler", 0, "Exception")
    /\ UNCHANGED <<media_requests, job, retry_calls, creates, users, rate_limiter>>

\* _shutdown: await self.consumer.stop_consuming().
ShutdownStopConsuming ==
    /\ worker.shutdown = "running"
    /\ worker.consumer_task # "created"
    /\ worker' = [worker EXCEPT !.consumer.consuming = FALSE,
                                !.calls = Append(@, "stop_consuming"),
                                !.shutdown = "waiting"]
    /\ last' = Op("stop_consuming", 0, "")
    /\ UNCHANGED <<media_requests, job, retry_calls, creates, users, rate_limiter>>

\* _shutdown: wait_for(consumer_task) returns because the task finished.
ShutdownTaskDone ==
    /\ worker.shutdown = "waiting"
    /\ worker.consumer_task = "done"
    /\ worker' = [worker EXCEPT !.calls = Append(@, "wait_for"),
                                !.shutdown = "disconnecting"]
    /\ last' = Op("wait_for", 0, "done")
    /\ UNCHANGED <<media_requests, job, retry_calls, creates, users, rate_limiter>>

\* _shutdown: wait_for(consumer_task) times out, the task is cancelled.
ShutdownTimeout ==
    /\ worker.shutdown = "waiting"
    /\ worker.consumer_task # "done"
    /\ worker' = [worker EXCEPT !.calls = @ \o <<"wait_for", "cancel">>,
                                !.consumer_task = "cancelled",
                                !.shutdown = "disconnecting"]
    /\ last' = Op("wait_for", 0, "TimeoutError")
    /\ UNCHANGED <<media_requests, job, retry_calls, creates, users, rate_limiter>>

\* _shutdown: await self.consumer.disconnect(), then
\* await clickhouse_client.disconnect().  A consumer without the method
\* raises AttributeError, which the except clause of _shutdown logs.
ShutdownDisconnect ==
    /\ worker.shutdown = "disconnecting"
    /\ IF "disconnect" \in ConsumerMethods
       THEN /\ worker' = [worker EXCEPT
                              !.calls = @ \o <<"consumer.disconnect",
                                               "clickhouse_client.disconnect">>,
                              !.clickhouse_client = None,
                              !.shutdown = "returned"]
            /\ last' = Op("shutdown", 0, "worker_shutdown_complete")
       ELSE /\ worker' = [worker EXCEPT !.shutdown = "returned"]
            /\ last' = Op("shutdown", 0, "AttributeError")
    /\ UNCHANGED <<media_requests, job, retry_calls, creates, users, rate_limiter>>

\* The worker as constructed, in stub mode or not, its services connected.
WorkerInit ==
    /\ media_requests = <<>>
    /\ job = Idle
    /\ retry_calls = [i \in Ids |-> 0]
    /\ creates = 0
    /\ last = Op("init", 0, "")
    /\ users = <<>>
    /\ rate_limiter = RateLimiter(DefaultLimit, DefaultWindow)
    /\ \E use_stub \in BOOLEAN : worker = MediaWorker(use_stub)

WorkerNext ==
    \/ StartConsuming
    \/ Wake
    \/ HandlerReturns
    \/ HandlerRaises
    \/ ShutdownStopConsuming
    \/ ShutdownTaskDone
    \/ ShutdownTimeout
    \/ ShutdownDisconnect

SpecWorker == WorkerInit /\ [][WorkerNext]_vars

\* C24: an exception of the message handler does not leave the consume
\* loop, the consumer goes on consuming, and the exception is recorded as
\* one failed and no processed message.
C24_HandlerExceptionIsCounted ==
    [][HandlerRaises
       => /\ worker'.consumer_task \in {"sleeping", "done"}
          /\ Getattr(worker'.consumer, "failed_messages", 0) = failed_messages + 1
          /\ Getattr(worker'.consumer, "processed_messages", 0) = processed_messages]_vars

\* C25: a shutdown that has returned made its calls in the order
\* stop_consuming, wait_for (with cancel after a timeout), the consumer's
\* disconnect, the database client's disconnect, each once, and the database
\* client is disconnected.
C25_ShutdownOrder ==
    worker.shutdown = "returned"
    => /\ worker.clickhouse_client = None
       /\ worker.calls \in
              {<<"stop_consuming", "wait_for",
                 "consumer.disconnect", "clickhouse_client.disconnect">>,
               <<"stop_consuming", "wait_for", "cancel",
                 "consumer.disconnect", "clickhouse_client.disconnect">>}

\* C26: once stop_consuming has returned, the consumer, stub or RabbitMQ,
\* hands no further message to the handler.
C26_NoDeliveryAfterStop ==
    [][worker.shutdown # "running" => worker'.delivered = worker.delivered]_vars

====
